---- MODULE Spec2Model ----
(***************************************************************************)
(* Session / credential lifecycle of the story backend.                    *)
(*                                                                         *)
(* The store is the tables users, user_sessions, oauth_accounts,           *)
(* email_verifications and stories.  A request runs in a request slot; a   *)
(* handler that awaits the store more than once is split at those awaits,  *)
(* so that two requests interleave exactly where the event loop lets them. *)
(*                                                                         *)
(* Time is counted in ticks of 1/TicksPerSec second: Date.now() is the     *)
(* tick counter, while jsonwebtoken stamps and checks tokens in whole      *)
(* seconds (Math.floor(Date.now() / 1000)).                                *)
(***************************************************************************)
EXTENDS Integers, Sequences, FiniteSets, TLC

\* ------------------------------------------------------------------ bounds
MaxTime == 3
MaxUsers == 2
MaxSessions == 2
MaxVerifications == 2
MaxDelay == 2
MaxStories == 51

\* ------------------------------------------------- program constants (scaled)
\* Ticks per second of the model clock (Date.now() is in ms, JWT in seconds).
TicksPerSec == 2
\* 7 * 24 * 60 * 60 * 1000 ms, scaled to 1 second.
SessionTtlSec == 1
\* expiresIn: '7d' of the signed token, scaled like the session TTL.
JwtExpiresInSec == 1
\* 15 * 60 * 1000 ms, scaled to 1 second.
VerificationTtlSec == 1

\* Stories a user may create per month: limits = { free: 5, premium: 50,
\* pro: 50, unlimited: Infinity }.
FreeLimit == 5
PremiumLimit == 50
ProLimit == 50

SessionTtl == SessionTtlSec * TicksPerSec
VerificationTtl == VerificationTtlSec * TicksPerSec

\* ------------------------------------------------------------ input domains
Procs == {1, 2}
\* Raw e-mail strings as clients type them: sequences of characters.
Emails == { <<"a">>, <<"A">>, <<"a", " ">> }
\* The addresses used where verification codes are at stake.
VerifyEmails == { <<"a">>, <<"A">> }
\* What an OAuth provider asserts: profile.emails?.[0]?.value || ''.
OAuthEmails == { <<"a">>, <<"A">>, <<>> }
Passwords == {"pw1", "pw2"}
Codes == {"111111", "222222"}
Providers == {"google", "apple"}
\* What the mail provider does with a dispatch: it accepts the mail, there is
\* no provider client (RESEND_API_KEY missing), or the call throws.
SinkOutcomes == {"sent", "refused", "threw"}
\* Roles a users row can carry: registerUser writes 'user'.
Roles == {"user", "admin"}
\* Owners and visibility of the stories asked for.
Stories == [userId : {<<"uuid", 1>>, <<"uuid", 2>>}, isPublic : BOOLEAN]
\* Two addresses of two different people.
AccessEmails == { <<"a">>, <<"B">> }
ProviderAccountIds == {"ext1"}
\* The subscription tiers that carry a limit.
Tiers == {"free", "premium", "pro"}

\* -------------------------------------------------------------------- state
VARIABLES
    now,            \* Date.now(), in ticks
    users,          \* rows of table users
    sessions,       \* rows of table user_sessions
    oauthAccounts,  \* rows of table oauth_accounts
    verifications,  \* rows of table email_verifications
    issued,         \* bearer tokens handed out to clients
    registered,     \* credentials of the register calls that returned 201
    fresh,          \* how many uuidv4() values each table has consumed
    procs,          \* the handlers that are between two awaits
    last,           \* the request that finished last
    env,            \* process.env: JWT_SECRET ("": not set) and NODE_ENV
    server,         \* the process: loading its modules, listening, or exited
    stories         \* rows of table stories

vars == <<now, users, sessions, oauthAccounts, verifications, issued,
          registered, fresh, procs, last, env, server, stories>>

\* ------------------------------------------------------------- string model
ToLowerChar(c) == CASE c = "A" -> "a" [] c = "B" -> "b" [] OTHER -> c

ToLowerCase(s) == [i \in 1..Len(s) |-> ToLowerChar(s[i])]

RECURSIVE TrimStart(_)
TrimStart(s) == IF s # <<>> /\ Head(s) = " " THEN TrimStart(Tail(s)) ELSE s

RECURSIVE TrimEnd(_)
TrimEnd(s) ==
    IF s # <<>> /\ s[Len(s)] = " " THEN TrimEnd(SubSeq(s, 1, Len(s) - 1)) ELSE s

Trim(s) == TrimEnd(TrimStart(s))

\* email.toLowerCase().trim()
NormalizeEmail(e) == Trim(ToLowerCase(e))

\* uuidv4(): the k-th fresh identifier, as a string value.
Uuid(k) == <<"uuid", k>>
NoId == <<"uuid", 0>>

\* bcrypt.hash / bcrypt.compare: a digest verifies exactly the password hashed.
NoPassword == <<"none">>
BcryptHash(password) == <<"bcrypt", password>>
BcryptCompare(password, digest) == digest = BcryptHash(password)

\* ------------------------------------------------------------------- tokens
\* jwt.sign(payload, secret, {expiresIn}) : iat and exp are in whole seconds.
NowSec(t) == t \div TicksPerSec

\* The literal generateJWT and verifyJWT fall back to.
FallbackSecret == "fallback-secret-for-development"

\* process.env.JWT_SECRET || 'fallback-secret-for-development'
SigningSecret ==
    IF env.JWT_SECRET # "" THEN env.JWT_SECRET ELSE FallbackSecret

\* The sixth field of a token is the secret it was signed with.
GenerateJWT(userId, sessionId, t) ==
    <<"jwt", userId, sessionId, NowSec(t), NowSec(t) + JwtExpiresInSec,
      SigningSecret>>

NoToken == <<"jwt", NoId, NoId, 0, 0, "none">>
\* A token signed with a key that is not the server's.
ForgedToken == <<"jwt", Uuid(1), Uuid(1), 0, MaxTime + 1, "forged">>

TokenUserId(tok) == tok[2]
TokenSessionId(tok) == tok[3]
TokenExp(tok) == tok[5]

\* jwt.verify(token, secret): signature first, then clockTimestamp >= exp
\* fails; without a secret it throws.
JwtVerify(tok, secret, t) ==
    secret # "" /\ tok[6] = secret /\ ~(NowSec(t) >= TokenExp(tok))

\* verifyJWT(token): jwt.verify under the secret generateJWT signs with.
VerifyJWT(tok, t) == JwtVerify(tok, SigningSecret, t)

\* ---------------------------------------------------------------- responses
\* No story: the story field of a request that is not about one.
NoStory == [userId |-> NoId, isPublic |-> FALSE]

\* What a finished request leaves for the properties to read: its inputs
\* (email, password, code, token), its answer (status, message, userId and
\* the token handed out), and two facts about its run.  dup: when a register
\* request came in, an earlier register had succeeded for the same email
\* ignoring letter case; when a provider callback came in, its external
\* identity was linked already; when a session was to be revoked, no row
\* had its id.  fault: the store failed under the request.  invoked: a gate
\* in front of the route called next(), so that the route's handler ran.
\* A story request also carries the story asked for and the role that the
\* store gives the Subject asking; a request that dispatched a verification
\* mail carries sink, what the mail provider did with it.
NoRequest ==
    [op |-> "none", email |-> <<>>, password |-> "", code |-> "",
     token |-> NoToken, status |-> 0, message |-> "", userId |-> NoId,
     issuedToken |-> NoToken, dup |-> FALSE, fault |-> FALSE,
     role |-> "", story |-> NoStory, sink |-> "", sessionId |-> NoId,
     invoked |-> FALSE]

\* -------------------------------------------------------------- request slots
\* A slot for a handler that awaits the store more than once (register,
\* resend-verification): its inputs and its locals across the awaits.
Idle ==
    [op |-> "none", pc |-> "idle", email |-> <<>>, password |-> "",
     sendTo |-> <<>>, userId |-> NoId, code |-> "", expiresAt |-> 0,
     dup |-> FALSE, provider |-> "", account |-> "", rowId |-> NoId,
     sink |-> "", sent |-> "", level |-> ""]

Free(p) == procs[p].pc = "idle"

\* A new handler takes the first free slot.
FirstFree(p) == Free(p) /\ \A q \in Procs : q < p => ~Free(q)

\* The store and the request slots of a process that has nothing to show yet.
EmptyStore ==
    /\ now = 0
    /\ users = {}
    /\ sessions = {}
    /\ oauthAccounts = {}
    /\ verifications = {}
    /\ issued = {}
    /\ registered = {}
    /\ fresh = [users |-> 0, sessions |-> 0, verifications |-> 0, oauth |-> 0,
                stories |-> 0]
    /\ stories = {}
    /\ procs = [p \in Procs |-> Idle]
    /\ last = NoRequest

\* A server that came up with its signing key configured.
Init ==
    /\ EmptyStore
    /\ env = [JWT_SECRET |-> "s3cret", NODE_ENV |-> "production"]
    /\ server = "listening"

\* ------------------------------------------------------------------ startup
\* What a deployment can put into process.env.
Environments ==
    [JWT_SECRET : {"", "s3cret"}, NODE_ENV : {"development", "production"}]

\* A process that has just been started, under any of the environments.
InitBoot ==
    /\ EmptyStore
    /\ env \in Environments
    /\ server = "loading"

\* A strategy constructor that takes a missing key: what C21 must tell apart
\* from JwtStrategyConstructs.
JwtStrategyAcceptsNoKey(secretOrKey) == TRUE

\* new JwtStrategy({secretOrKey, ...}): passport-jwt throws a TypeError
\* ('JwtStrategy requires a secret or key') when secretOrKey is not set.
JwtStrategyConstructs(secretOrKey) == secretOrKey # ""

\* server.ts imports app, app the routes, the routes the passport middleware,
\* and that config/passport, whose top level constructs the strategies.  An
\* error thrown there ends the process before startServer is reached.
LoadModules ==
    /\ server = "loading"
    /\ server' = IF JwtStrategyConstructs(env.JWT_SECRET)
                 THEN "loaded" ELSE "exited"
    /\ UNCHANGED <<stories, now, users, sessions, oauthAccounts, verifications, issued,
                   registered, fresh, procs, last, env>>

\* startServer: pool.connect(), then app.listen; process.exit(1) when the
\* database cannot be reached.
StartServer(connected) ==
    /\ server = "loaded"
    /\ server' = IF connected THEN "listening" ELSE "exited"
    /\ UNCHANGED <<stories, now, users, sessions, oauthAccounts, verifications, issued,
                   registered, fresh, procs, last, env>>

\* Requests are served by a process that listens.
Listening == server = "listening"

\* The clock advances on its own.
Tick ==
    /\ now < MaxTime
    /\ now' = now + 1
    /\ UNCHANGED <<env, server, stories,
                   users, sessions, oauthAccounts, verifications, issued,
                   registered, fresh, procs, last>>

\* ----------------------------------------------------------- store queries
\* UserService.getUserByEmail: exact match on the stored text.
GetUserByEmail(email) == {u \in users : u.email = email}

\* UserService.getUserById
GetUserById(userId) == {u \in users : u.id = userId}

\* The unique index users.email: an insert of an existing text is refused.
EmailTaken(email) == \E u \in users : u.email = email

\* Reservations that keep a started handler from halting on a model bound.
PendingUsers ==
    Cardinality({p \in Procs : procs[p].pc \in {"reg_insert", "oauth_email",
                                                "oauth_user"}})
PendingSessions ==
    Cardinality({p \in Procs : procs[p].op \in {"register", "oauth"}})
PendingVerifications ==
    Cardinality({p \in Procs : procs[p].pc \in {"reg_insert", "send_delete",
                                                "send_insert"}})

\* ---------------------------------------------------------------- sessions
\* AuthService.createSessionForUser: the row is stamped with Date.now() at
\* entry (t0); the token is signed after the two store round trips (t1).
NewSessionRow(userId, sessionId, t0) ==
    [id |-> sessionId, userId |-> userId, token |-> sessionId,
     expiresAt |-> t0 + SessionTtl, createdAt |-> t0]

NextSessionId == Uuid(fresh.sessions + 1)

\* A model bound: room for one more session row besides the reserved ones.
SessionSlotFree == fresh.sessions + PendingSessions < MaxSessions

\* The token createSessionForUser returns when it starts now and signs d later.
SessionToken(userId, d) == GenerateJWT(userId, NextSessionId, now + d)

CreateSessionForUser(userId, d) ==
    /\ now + d <= MaxTime
    /\ sessions' = sessions \cup {NewSessionRow(userId, NextSessionId, now)}
    /\ issued' = issued \cup {SessionToken(userId, d)}
    /\ now' = now + d

\* A revoke that takes every session of the owner with it: what C29 must
\* tell apart from InvalidateSession.
InvalidateSessionsOfOwner(sessionId) ==
    {s \in sessions :
         \A x \in sessions : x.id = sessionId => s.userId # x.userId}

\* AuthService.invalidateSession(sessionId): delete ... where id = sessionId
InvalidateSession(sessionId) == {s \in sessions : s.id # sessionId}

\* A revoke that reports failure when it found no row to delete: what C22
\* must tell apart from InvalidateSessionResult.
InvalidateSessionFoundRow(sessionId) == \E s \in sessions : s.id = sessionId

\* What invalidateSession returns when the store answers: true, whether or
\* not the delete matched a row.
InvalidateSessionResult(sessionId) == TRUE

\* The identifiers a caller can ask to revoke: those of sessions created so
\* far and one that no session ever had.
SessionIds == {Uuid(k) : k \in 1..(MaxSessions + 1)}

\* AuthService.invalidateSession(sessionId), called for a session id.
RevokeSession(sessionId) ==
    /\ sessions' = InvalidateSession(sessionId)
    /\ last' = [NoRequest EXCEPT
           !.op = "revoke", !.sessionId = sessionId,
           !.dup = ~ \E s \in sessions : s.id = sessionId,
           !.status = IF InvalidateSessionResult(sessionId) THEN 200 ELSE 500,
           !.message = IF InvalidateSessionResult(sessionId)
                       THEN "true" ELSE "false"]
    /\ UNCHANGED <<env, server, stories, now, users, oauthAccounts, verifications,
                   issued, registered, fresh, procs>>

\* ---------------------------------------------------------------- register
\* Two strings are equal ignoring letter case.
SameIgnoringCase(e1, e2) == ToLowerCase(e1) = ToLowerCase(e2)

\* The text registerUser stores: email.toLowerCase().trim()
StoredEmail(email) == NormalizeEmail(email)

\* AuthController.register up to its first await: the existence check.
RegisterStart(p, email, password) ==
    /\ FirstFree(p)
    /\ fresh.users + PendingUsers < MaxUsers
    /\ fresh.verifications + PendingVerifications < MaxVerifications
    /\ SessionSlotFree
    /\ LET dup == \E r \in registered : SameIgnoringCase(r.email, email)
       IN  IF GetUserByEmail(email) # {}
           THEN /\ last' = [NoRequest EXCEPT
                      !.op = "register", !.email = email,
                      !.password = password, !.dup = dup,
                      !.status = 409,
                      !.message = "User with this email already exists"]
                /\ UNCHANGED procs
           ELSE /\ procs' = [procs EXCEPT ![p] =
                      [Idle EXCEPT !.op = "register", !.pc = "reg_insert",
                                   !.email = email, !.password = password,
                                   !.dup = dup]]
                /\ UNCHANGED last
    /\ UNCHANGED <<env, server, stories,
                   now, users, sessions, oauthAccounts, verifications, issued,
                   registered, fresh>>

\* AuthService.registerUser: the insert into users.  A unique violation is
\* caught by registerUser, which returns null; the controller answers 500.
RegisterInsert(p) ==
    /\ procs[p].pc = "reg_insert"
    /\ LET email == StoredEmail(procs[p].email)
           id == Uuid(fresh.users + 1)
       IN  IF EmailTaken(email)
           THEN /\ last' = [NoRequest EXCEPT
                      !.op = "register", !.email = procs[p].email,
                      !.password = procs[p].password, !.dup = procs[p].dup,
                      !.status = 500,
                      !.message = "Failed to create user"]
                /\ procs' = [procs EXCEPT ![p] = Idle]
                /\ UNCHANGED <<users, fresh>>
           ELSE /\ users' = users \cup
                      {[id |-> id, email |-> email,
                        password |-> BcryptHash(procs[p].password),
                        emailVerified |-> FALSE,
                        subscriptionLevel |-> "free",
                        storiesGenerated |-> 0]}
                /\ fresh' = [fresh EXCEPT !.users = @ + 1]
                /\ procs' = [procs EXCEPT ![p].pc = "send_delete",
                                          ![p].userId = id,
                                          ![p].sendTo = email]
                /\ UNCHANGED last
    /\ UNCHANGED <<env, server, stories,
                   now, sessions, oauthAccounts, verifications, issued,
                   registered>>

\* AuthService.sendVerificationEmail: a code is drawn, the expiry computed,
\* and the rows of this user deleted.
SendDelete(p, code) ==
    /\ procs[p].pc = "send_delete"
    /\ verifications' = {v \in verifications : v.userId # procs[p].userId}
    /\ procs' = [procs EXCEPT ![p].pc = "send_insert",
                              ![p].code = code,
                              ![p].expiresAt = now + VerificationTtl]
    /\ UNCHANGED <<env, server, stories,
                   now, users, sessions, oauthAccounts, issued, registered,
                   fresh, last>>

\* AuthService.sendVerificationEmail: the insert of the new row.
SendInsert(p) ==
    /\ procs[p].pc = "send_insert"
    /\ verifications' = verifications \cup
           {[id |-> Uuid(fresh.verifications + 1),
             userId |-> procs[p].userId,
             email |-> procs[p].sendTo,
             code |-> procs[p].code,
             expiresAt |-> procs[p].expiresAt,
             verified |-> FALSE]}
    /\ fresh' = [fresh EXCEPT !.verifications = @ + 1]
    /\ procs' = [procs EXCEPT ![p].pc = "send_mail"]
    /\ UNCHANGED <<env, server, stories,
                   now, users, sessions, oauthAccounts, issued, registered,
                   last>>

\* EmailService.sendVerificationEmail: true when the provider took the mail;
\* a missing provider client and a throw of the provider both give false.
EmailServiceResult(outcome) == IF outcome = "sent" THEN "true" ELSE "false"

\* A sendVerificationEmail that lets the provider's error through: what C18
\* must tell apart from SendVerificationEmailResult.
SendVerificationEmailPropagates(outcome) ==
    IF outcome = "threw" THEN "throws" ELSE EmailServiceResult(outcome)

\* AuthService.sendVerificationEmail hands that boolean on ("throws" would
\* be an error that escaped it: its own catch gives false as well).
SendVerificationEmailResult(outcome) == EmailServiceResult(outcome)

\* The promise of emailService.sendVerificationEmail settles: the awaiting
\* sendVerificationEmail goes on.  Until then the handler waits.
MailReturn(p, outcome) ==
    /\ procs[p].pc = "send_mail"
    /\ procs' = [procs EXCEPT ![p].pc = "mail_done",
                              ![p].sink = outcome,
                              ![p].sent = SendVerificationEmailResult(outcome)]
    /\ UNCHANGED <<env, server, stories,
                   now, users, sessions, oauthAccounts, verifications, issued,
                   registered, fresh, last>>

\* registerUser after sendVerificationEmail returned (its boolean is not
\* looked at): createSessionForUser, then 201 with the token.  An error
\* thrown up to registerUser would end in its catch: null, answered 500.
RegisterFinish(p, d) ==
    /\ procs[p].pc = "mail_done"
    /\ procs[p].op = "register"
    /\ LET req == [NoRequest EXCEPT
                      !.op = "register", !.email = procs[p].email,
                      !.password = procs[p].password, !.dup = procs[p].dup,
                      !.sink = procs[p].sink]
       IN  IF procs[p].sent = "throws"
           THEN /\ d = 0
                /\ last' = [req EXCEPT !.status = 500,
                                       !.message = "Failed to create user"]
                /\ UNCHANGED <<now, sessions, issued, fresh, registered>>
           ELSE /\ CreateSessionForUser(procs[p].userId, d)
                /\ fresh' = [fresh EXCEPT !.sessions = @ + 1]
                /\ registered' = registered \cup
                       {[email |-> procs[p].email,
                         password |-> procs[p].password,
                         userId |-> procs[p].userId]}
                /\ last' = [req EXCEPT
                       !.status = 201,
                       !.message = "User registered successfully",
                       !.userId = procs[p].userId,
                       !.issuedToken = SessionToken(procs[p].userId, d)]
    /\ procs' = [procs EXCEPT ![p] = Idle]
    /\ UNCHANGED <<env, server, stories, users, oauthAccounts, verifications>>

\* registerUser when createSessionForUser fails on the store: it returns
\* null, registerUser throws into its own catch and returns null, and the
\* controller answers 500.  Nothing takes back the user row and the
\* verification row written before.
RegisterSessionFails(p) ==
    /\ procs[p].pc = "mail_done"
    /\ procs[p].op = "register"
    /\ last' = [NoRequest EXCEPT
           !.op = "register", !.email = procs[p].email,
           !.password = procs[p].password, !.dup = procs[p].dup,
           !.sink = procs[p].sink, !.userId = procs[p].userId,
           !.fault = TRUE, !.status = 500,
           !.message = "Failed to create user"]
    /\ procs' = [procs EXCEPT ![p] = Idle]
    /\ UNCHANGED <<env, server, stories, now, users, sessions, oauthAccounts,
                   verifications, issued, registered, fresh>>

\* ------------------------------------------------------- email verification
\* AuthService.resendVerificationEmail up to the call of sendVerificationEmail.
FindUserByNormalizedEmail(email) ==
    {u \in users : u.email = NormalizeEmail(email)}

\* A check that takes no user for verified: what C19 must tell apart from
\* AlreadyVerified.
AlreadyVerifiedNever(u) == FALSE

\* resendVerificationEmail: if (user.emailVerified) return true
AlreadyVerified(u) == u.emailVerified

ResendStart(p, email) ==
    /\ FirstFree(p)
    /\ fresh.verifications + PendingVerifications < MaxVerifications
    /\ LET req == [NoRequest EXCEPT !.op = "resend", !.email = email]
           found == FindUserByNormalizedEmail(email)
       IN  IF found = {}
           THEN /\ last' = [req EXCEPT !.status = 400,
                                !.message = "Failed to resend verification email"]
                /\ UNCHANGED procs
           ELSE \E u \in found :
                    IF AlreadyVerified(u)
                    THEN /\ last' = [req EXCEPT !.status = 200, !.userId = u.id,
                                !.message = "Verification email sent successfully"]
                         /\ UNCHANGED procs
                    ELSE /\ procs' = [procs EXCEPT ![p] =
                               [Idle EXCEPT !.op = "resend", !.pc = "send_delete",
                                            !.email = email, !.userId = u.id,
                                            !.sendTo = u.email]]
                         /\ UNCHANGED last
    /\ UNCHANGED <<env, server, stories,
                   now, users, sessions, oauthAccounts, verifications, issued,
                   registered, fresh>>

\* resendVerificationEmail returns what sendVerificationEmail returned (false
\* from its catch, had an error escaped); the controller answers 200 or 400.
ResendFinish(p) ==
    /\ procs[p].pc = "mail_done"
    /\ procs[p].op = "resend"
    /\ LET sent == procs[p].sent = "true"
       IN  last' = [NoRequest EXCEPT
               !.op = "resend", !.email = procs[p].email,
               !.userId = procs[p].userId, !.code = procs[p].code,
               !.sink = procs[p].sink,
               !.status = IF sent THEN 200 ELSE 400,
               !.message = IF sent THEN "Verification email sent successfully"
                                   ELSE "Failed to resend verification email"]
    /\ procs' = [procs EXCEPT ![p] = Idle]
    /\ UNCHANGED <<env, server, stories,
                   now, users, sessions, oauthAccounts, verifications, issued,
                   registered, fresh>>

\* The select of verifyEmail: unverified rows with this email and code.
MatchingVerifications(email, code) ==
    {v \in verifications : v.email = email /\ v.code = code /\ ~v.verified}

\* verification.expiresAt < new Date()
VerificationExpired(v, t) == v.expiresAt < t

\* v is the row issued last among the rows stored for its email.
IssuedLast(v) ==
    \A w \in verifications : w.email = v.email => w.id[2] <= v.id[2]

\* AuthService.verifyEmail behind AuthController.emailVerification: the
\* select of the row and the check of its expiry.
VerifyEmail(p, email, code) ==
    /\ FirstFree(p)
    /\ LET req == [NoRequest EXCEPT !.op = "verify", !.email = email,
                                    !.code = code]
           match == MatchingVerifications(email, code)
       IN  IF match = {}
           THEN /\ last' = [req EXCEPT !.status = 400,
                                !.message = "Invalid verification code or email"]
                /\ UNCHANGED procs
           ELSE \E v \in match :
                    IF VerificationExpired(v, now)
                    THEN /\ last' = [req EXCEPT !.status = 400,
                                !.message = "Verification code has expired"]
                         /\ UNCHANGED procs
                    ELSE /\ procs' = [procs EXCEPT ![p] =
                               [Idle EXCEPT !.op = "verify", !.pc = "verify_mark",
                                            !.email = email, !.code = code,
                                            !.userId = v.userId, !.rowId = v.id]]
                         /\ UNCHANGED last
    /\ UNCHANGED <<env, server, stories,
                   now, users, sessions, oauthAccounts, verifications, issued,
                   registered, fresh>>

\* verifyEmail: update email_verifications set verified = true where id = ...
VerifyMark(p) ==
    /\ procs[p].pc = "verify_mark"
    /\ verifications' = {IF v.id = procs[p].rowId
                         THEN [v EXCEPT !.verified = TRUE]
                         ELSE v : v \in verifications}
    /\ procs' = [procs EXCEPT ![p].pc = "verify_flip"]
    /\ UNCHANGED <<env, server, stories,
                   now, users, sessions, oauthAccounts, issued, registered,
                   fresh, last>>

\* verifyEmail: update users set emailVerified = true where id = ..., then the
\* welcome mail and the answer.
VerifyFlip(p) ==
    /\ procs[p].pc = "verify_flip"
    /\ users' = {IF u.id = procs[p].userId
                 THEN [u EXCEPT !.emailVerified = TRUE]
                 ELSE u : u \in users}
    /\ last' = [NoRequest EXCEPT
           !.op = "verify", !.email = procs[p].email, !.code = procs[p].code,
           !.status = 200, !.userId = procs[p].userId,
           !.message = "Email verified successfully"]
    /\ procs' = [procs EXCEPT ![p] = Idle]
    /\ UNCHANGED <<env, server, stories,
                   now, sessions, oauthAccounts, verifications, issued,
                   registered, fresh>>

\* verifyEmail: the store fails on the update of users; the catch returns
\* null, the controller answers 500, and the row stays marked.
VerifyFlipFails(p) ==
    /\ procs[p].pc = "verify_flip"
    /\ last' = [NoRequest EXCEPT
           !.op = "verify", !.email = procs[p].email, !.code = procs[p].code,
           !.status = 500, !.fault = TRUE,
           !.message = "Email verification failed"]
    /\ procs' = [procs EXCEPT ![p] = Idle]
    /\ UNCHANGED <<env, server, stories,
                   now, users, sessions, oauthAccounts, verifications, issued,
                   registered, fresh>>

\* -------------------------------------------------------------------- login
\* A select by the email as typed, without toLowerCase().trim(): what C9 must
\* tell apart from LoginLookup.
LoginLookupRaw(email) == {u \in users : u.email = email}

\* AuthService.authenticateUser: the select by email.toLowerCase().trim()
LoginLookup(email) == {u \in users : u.email = NormalizeEmail(email)}

\* An acceptance that skips bcrypt.compare: what C8 must tell apart from
\* CredentialsAccepted.
CredentialsAcceptedAnyPassword(u, password) == u.password # NoPassword

\* AuthService.authenticateUser: the user has a password and it compares equal.
CredentialsAccepted(u, password) ==
    u.password # NoPassword /\ BcryptCompare(password, u.password)

\* The users authenticateUser goes on to create a session for (none: null).
AuthenticateUser(email, password) ==
    {u \in LoginLookup(email) : CredentialsAccepted(u, password)}

\* AuthController.login over AuthService.authenticateUser; a null result is
\* answered 401 'Invalid email or password'.
Login(email, password, d) ==
    /\ LET req == [NoRequest EXCEPT !.op = "login", !.email = email,
                                    !.password = password]
           ok == AuthenticateUser(email, password)
       IN  IF ok = {}
           THEN /\ d = 0
                /\ last' = [req EXCEPT !.status = 401,
                                       !.message = "Invalid email or password"]
                /\ UNCHANGED <<now, sessions, issued, fresh>>
           ELSE \E u \in ok :
                /\ SessionSlotFree
                /\ CreateSessionForUser(u.id, d)
                /\ fresh' = [fresh EXCEPT !.sessions = @ + 1]
                /\ last' = [req EXCEPT !.status = 200,
                                       !.message = "Login successful",
                                       !.userId = u.id,
                                       !.issuedToken = SessionToken(u.id, d)]
    /\ UNCHANGED <<env, server, stories,
                   users, oauthAccounts, verifications, registered, procs>>

\* Where the store can fail under a login: on the select of the user, on the
\* insert of the session row, or on the select that follows that insert.
LoginFaultStages == {"lookup", "session_insert", "session_user"}

\* AuthController.login when the store fails under authenticateUser: its catch
\* (and, for the session, the catch of createSessionForUser and the throw
\* that follows its null) returns null, which the controller answers like a
\* refused password.  A session row inserted before the failure stays.
LoginStoreFails(email, password, stage) ==
    /\ stage \in LoginFaultStages
    /\ stage # "lookup" => AuthenticateUser(email, password) # {}
    /\ last' = [NoRequest EXCEPT
           !.op = "login", !.email = email, !.password = password,
           !.fault = TRUE, !.status = 401,
           !.message = "Invalid email or password"]
    /\ IF stage = "session_user"
       THEN /\ SessionSlotFree
            /\ \E u \in AuthenticateUser(email, password) :
                   sessions' = sessions \cup
                       {NewSessionRow(u.id, NextSessionId, now)}
            /\ fresh' = [fresh EXCEPT !.sessions = @ + 1]
       ELSE UNCHANGED <<sessions, fresh>>
    /\ UNCHANGED <<env, server, stories,
                   now, users, oauthAccounts, verifications, issued,
                   registered, procs>>

\* --------------------------------------------------------------------- gate
\* A gate that lets only verified users through: what C16 must tell apart
\* from JwtStrategyUser.
JwtStrategyVerifiedUser(tok) ==
    IF JwtVerify(tok, env.JWT_SECRET, now)
    THEN {u \in GetUserById(TokenUserId(tok)) : u.emailVerified}
    ELSE {}

\* secretOrKey: process.env.JWT_SECRET! -- the strategy's key has no fallback.
SecretOrKey == env.JWT_SECRET

\* The passport JwtStrategy: the token is verified (signature, exp) under
\* secretOrKey and the verify callback loads the user named by payload.userId.
JwtStrategyUser(tok) ==
    IF JwtVerify(tok, SecretOrKey, now)
    THEN GetUserById(TokenUserId(tok))
    ELSE {}

\* A required gate that goes on without a user: what C24 must tell apart
\* from RequiredProceeds.
RequiredProceedsAlways(found) == TRUE

\* authenticateJWT: if (!user) return res.status(401)...; else next()
RequiredProceeds(found) == found # {}

\* What a gate puts into req.user: the id of the user passport found, or
\* nothing (NoId).
ReqUser(found) == IF found = {} THEN {NoId} ELSE {u.id : u \in found}

\* authenticateJWT in front of a protected route (GET /api/auth/profile ...).
Authenticate(tok) ==
    /\ LET req == [NoRequest EXCEPT !.op = "authenticate", !.token = tok]
           found == JwtStrategyUser(tok)
       IN  IF ~RequiredProceeds(found)
           THEN last' = [req EXCEPT !.status = 401,
                             !.message = "Invalid or missing authentication token"]
           ELSE \E id \in ReqUser(found) :
                    last' = [req EXCEPT !.status = 200, !.userId = id,
                                        !.invoked = TRUE,
                                        !.message = "authenticated"]
    /\ UNCHANGED <<env, server, stories,
                   now, users, sessions, oauthAccounts, verifications, issued,
                   registered, fresh, procs>>

\* authenticateJWT when the strategy's lookup of the user throws: passport
\* hands the error to the callback, which answers 500 and stops.
AuthenticateStoreFails(tok) ==
    /\ JwtVerify(tok, SecretOrKey, now)
    /\ last' = [NoRequest EXCEPT
           !.op = "authenticate", !.token = tok, !.fault = TRUE,
           !.status = 500, !.message = "Authentication error"]
    /\ UNCHANGED <<env, server, stories, now, users, sessions, oauthAccounts,
                   verifications, issued, registered, fresh, procs>>

\* GET /api/auth/verify: optionalJWT sets req.user to the user or to null and
\* calls next() whatever passport said (storeUp: the strategy's lookup of the
\* user did not throw); AuthController.verifyAuth then answers for req.user.
VerifyAuth(tok, storeUp) ==
    /\ LET req == [NoRequest EXCEPT !.op = "optional", !.token = tok,
                                    !.fault = ~storeUp, !.invoked = TRUE]
           found == IF storeUp THEN JwtStrategyUser(tok) ELSE {}
       IN  \E id \in ReqUser(found) :
               IF id = NoId
               THEN last' = [req EXCEPT !.status = 401,
                                        !.message = "User not authenticated"]
               ELSE last' = [req EXCEPT !.status = 200, !.userId = id,
                                        !.message = "authenticated"]
    /\ UNCHANGED <<env, server, stories, now, users, sessions, oauthAccounts,
                   verifications, issued, registered, fresh, procs>>

\* req.headers.authorization?.replace('Bearer ', ''): the bearer string itself.
BearerValue(tok) == tok

\* POST /logout: authenticateJWT, then AuthController.logout, which hands the
\* bearer value to invalidateSession.
Logout(tok) ==
    /\ LET req == [NoRequest EXCEPT !.op = "logout", !.token = tok]
       IN  IF JwtStrategyUser(tok) = {}
           THEN /\ last' = [req EXCEPT !.status = 401,
                             !.message = "Invalid or missing authentication token"]
                /\ UNCHANGED sessions
           ELSE /\ sessions' = InvalidateSession(BearerValue(tok))
                /\ last' = [req EXCEPT !.status = 200,
                                       !.message = "Logout successful"]
    /\ UNCHANGED <<env, server, stories,
                   now, users, oauthAccounts, verifications, issued,
                   registered, fresh, procs>>

\* ------------------------------------------------------------ validateToken
\* A select by the session id alone: what C25 must tell apart from
\* FindSession.
FindSessionById(tok) == {s \in sessions : s.id = TokenSessionId(tok)}

\* The select of validateToken: id = payload.sessionId and userId = payload.userId
FindSession(tok) ==
    {s \in sessions : s.id = TokenSessionId(tok) /\ s.userId = TokenUserId(tok)}

\* session.expiresAt < new Date()
SessionExpired(s, t) == s.expiresAt < t

\* What AuthService.validateToken returns at time t (the empty set: null).
ValidateTokenUser(tok, t) ==
    IF ~VerifyJWT(tok, t)
    THEN {}
    ELSE {u \in users : /\ u.id = TokenUserId(tok)
                        /\ \E s \in FindSession(tok) : ~SessionExpired(s, t)}

\* AuthService.validateToken, with its clean-up of an expired row.
ValidateToken(tok) ==
    /\ LET req == [NoRequest EXCEPT !.op = "validate", !.token = tok]
           found == ValidateTokenUser(tok, now)
       IN  /\ sessions' =
                 IF /\ VerifyJWT(tok, now)
                    /\ \E s \in FindSession(tok) : SessionExpired(s, now)
                 THEN InvalidateSession(TokenSessionId(tok))
                 ELSE sessions
           /\ IF found = {}
              THEN last' = [req EXCEPT !.status = 401, !.message = "null"]
              ELSE \E u \in found :
                       last' = [req EXCEPT !.status = 200, !.userId = u.id,
                                           !.message = "user"]
    /\ UNCHANGED <<env, server, stories,
                   now, users, oauthAccounts, verifications, issued,
                   registered, fresh, procs>>

\* -------------------------------------------------------------------- OAuth
\* A lookup that never finds the external identity: what C12 must tell
\* apart from ExistingOAuthAccounts.
ExistingOAuthAccountsNone(provider, providerAccountId) == {}

\* The join of findOrCreateOAuthUser: accounts of this external identity
\* whose user row exists.
ExistingOAuthAccounts(provider, providerAccountId) ==
    {a \in oauthAccounts : /\ a.provider = provider
                           /\ a.providerAccountId = providerAccountId
                           /\ GetUserById(a.userId) # {}}

\* The rows of oauth_accounts for an external identity.
Linked(provider, providerAccountId) ==
    {a \in oauthAccounts : /\ a.provider = provider
                           /\ a.providerAccountId = providerAccountId}

\* The user row findOrCreateOAuthUser inserts: the asserted email as given.
NewOAuthUser(id, email) ==
    [id |-> id, email |-> email, password |-> NoPassword,
     emailVerified |-> TRUE, subscriptionLevel |-> "free",
     storiesGenerated |-> 0]

\* The row findOrCreateOAuthUser inserts into oauth_accounts.
NewOAuthAccount(id, userId, provider, providerAccountId) ==
    [id |-> id, userId |-> userId, provider |-> provider,
     providerAccountId |-> providerAccountId]

\* The answer of a provider callback that ended without a user: passport's
\* failure redirect.
OAuthFailed(p) ==
    [NoRequest EXCEPT !.op = "oauth", !.email = procs[p].email,
                      !.dup = procs[p].dup, !.status = 302,
                      !.message = "error=oauth_failed"]

\* The provider callback reaches findOrCreateOAuthUser: the select of the
\* accounts of this external identity.  With one found, its tokens are
\* updated and its user returned.
OAuthStart(p, provider, providerAccountId, email) ==
    /\ FirstFree(p)
    /\ SessionSlotFree
    /\ fresh.users + PendingUsers < MaxUsers
    /\ LET existing == ExistingOAuthAccounts(provider, providerAccountId)
           slot == [Idle EXCEPT !.op = "oauth", !.email = email,
                                !.provider = provider,
                                !.account = providerAccountId,
                                !.dup = Linked(provider, providerAccountId) # {}]
       IN  IF existing # {}
           THEN \E a \in existing :
                    procs' = [procs EXCEPT ![p] =
                        [slot EXCEPT !.pc = "oauth_session",
                                     !.userId = a.userId]]
           ELSE procs' = [procs EXCEPT ![p] = [slot EXCEPT !.pc = "oauth_email"]]
    /\ UNCHANGED <<env, server, stories,
                   now, users, sessions, oauthAccounts, verifications, issued,
                   registered, fresh, last>>

\* findOrCreateOAuthUser: getUserByEmail(oauthData.email).
OAuthFindByEmail(p) ==
    /\ procs[p].pc = "oauth_email"
    /\ LET byEmail == GetUserByEmail(procs[p].email)
       IN  IF byEmail # {}
           THEN \E u \in byEmail :
                    procs' = [procs EXCEPT ![p].pc = "oauth_link",
                                           ![p].userId = u.id]
           ELSE procs' = [procs EXCEPT ![p].pc = "oauth_user"]
    /\ UNCHANGED <<env, server, stories,
                   now, users, sessions, oauthAccounts, verifications, issued,
                   registered, fresh, last>>

\* findOrCreateOAuthUser: the insert into users.  A unique violation is
\* caught, null is returned and passport redirects to the failure page.
OAuthInsertUser(p) ==
    /\ procs[p].pc = "oauth_user"
    /\ LET id == Uuid(fresh.users + 1)
       IN  IF EmailTaken(procs[p].email)
           THEN /\ last' = OAuthFailed(p)
                /\ procs' = [procs EXCEPT ![p] = Idle]
                /\ UNCHANGED <<users, fresh>>
           ELSE /\ users' = users \cup {NewOAuthUser(id, procs[p].email)}
                /\ fresh' = [fresh EXCEPT !.users = @ + 1]
                /\ procs' = [procs EXCEPT ![p].pc = "oauth_link",
                                          ![p].userId = id]
                /\ UNCHANGED last
    /\ UNCHANGED <<env, server, stories,
                   now, sessions, oauthAccounts, verifications, issued,
                   registered>>

\* findOrCreateOAuthUser: the insert into oauth_accounts, which no
\* constraint of the table refuses.
OAuthLink(p) ==
    /\ procs[p].pc = "oauth_link"
    /\ oauthAccounts' = oauthAccounts \cup
           {NewOAuthAccount(Uuid(fresh.oauth + 1), procs[p].userId,
                            procs[p].provider, procs[p].account)}
    /\ fresh' = [fresh EXCEPT !.oauth = @ + 1]
    /\ procs' = [procs EXCEPT ![p].pc = "oauth_session"]
    /\ UNCHANGED <<env, server, stories,
                   now, users, sessions, verifications, issued, registered,
                   last>>

\* findOrCreateOAuthUser: the store fails on the insert into oauth_accounts;
\* the catch returns null and nothing that was written is taken back.
OAuthLinkFails(p) ==
    /\ procs[p].pc = "oauth_link"
    /\ last' = [OAuthFailed(p) EXCEPT !.fault = TRUE]
    /\ procs' = [procs EXCEPT ![p] = Idle]
    /\ UNCHANGED <<env, server, stories,
                   now, users, sessions, oauthAccounts, verifications, issued,
                   registered, fresh>>

\* AuthController.handleOAuthSuccess: createSessionForUser, cookie, redirect.
OAuthFinish(p, d) ==
    /\ procs[p].pc = "oauth_session"
    /\ CreateSessionForUser(procs[p].userId, d)
    /\ fresh' = [fresh EXCEPT !.sessions = @ + 1]
    /\ last' = [NoRequest EXCEPT
           !.op = "oauth", !.email = procs[p].email, !.dup = procs[p].dup,
           !.status = 302, !.message = "success=true",
           !.userId = procs[p].userId,
           !.issuedToken = SessionToken(procs[p].userId, d)]
    /\ procs' = [procs EXCEPT ![p] = Idle]
    /\ UNCHANGED <<env, server, stories,
                   users, oauthAccounts, verifications, registered>>

\* ------------------------------------------------------------ story access
\* UserService.canAccessStory: the owner and a public story pass; the user
\* row is loaded and nothing of it is looked at.
CanAccessStory(userId, story) ==
    IF story.userId = userId THEN TRUE
    ELSE IF story.isPublic THEN TRUE
    ELSE FALSE

\* A story route behind authenticateJWT: the Subject u, whose row carries
\* role, asks for a story; 403 when canAccessStory says no.
GetStory(u, role, story) ==
    /\ u \in users
    /\ LET req == [NoRequest EXCEPT !.op = "story", !.userId = u.id,
                                    !.role = role, !.story = story]
       IN  IF CanAccessStory(u.id, story)
           THEN last' = [req EXCEPT !.status = 200, !.message = "story"]
           ELSE last' = [req EXCEPT !.status = 403, !.message = "Access denied"]
    /\ UNCHANGED <<env, server, stories,
                   now, users, sessions, oauthAccounts, verifications, issued,
                   registered, fresh, procs>>

\* ----------------------------------------------------------- story creation
\* limits[user.subscriptionLevel] || limits.free, for the tiers with a limit.
UserLimit(level) ==
    CASE level = "free" -> FreeLimit
      [] level = "premium" -> PremiumLimit
      [] level = "pro" -> ProLimit
      [] OTHER -> FreeLimit

\* if (userLimit === Infinity) return false
Unlimited(level) == level = "unlimited"

\* The count of hasReachedStoryLimit: stories of the user created since the
\* first of the month (every story here is of the current month).
StoriesThisMonth(userId) ==
    Cardinality({st \in stories : st.userId = userId})

\* Story requests under way that have not inserted their row yet.
PendingStories ==
    Cardinality({p \in Procs : procs[p].pc \in {"story_count", "story_insert"}})

\* The answer of createStory when the limit is reached: 429.
LimitReached(userId) ==
    [NoRequest EXCEPT !.op = "create_story", !.userId = userId,
                      !.status = 429,
                      !.message = "Story generation limit reached for current subscription"]

\* UserService.updateUser(userId, {subscriptionLevel: level}).
UpdateSubscription(u, level) ==
    /\ u \in users
    /\ users' = {IF x.id = u.id THEN [x EXCEPT !.subscriptionLevel = level]
                 ELSE x : x \in users}
    /\ last' = [NoRequest EXCEPT !.op = "subscription", !.userId = u.id,
                                 !.status = 200, !.message = level]
    /\ UNCHANGED <<env, server, stories, now, sessions, oauthAccounts,
                   verifications, issued, registered, fresh, procs>>

\* StoryService.createStory for the user of the request, up to the first
\* await of hasReachedStoryLimit: getUserById.  No user counts as limit
\* reached.
CreateStoryStart(p, userId) ==
    /\ FirstFree(p)
    /\ fresh.stories + PendingStories < MaxStories
    /\ LET found == GetUserById(userId)
       IN  IF found = {}
           THEN /\ last' = LimitReached(userId)
                /\ UNCHANGED procs
           ELSE \E u \in found :
                    /\ procs' = [procs EXCEPT ![p] =
                           [Idle EXCEPT !.op = "create_story",
                                        !.pc = IF Unlimited(u.subscriptionLevel)
                                               THEN "story_insert"
                                               ELSE "story_count",
                                        !.userId = userId,
                                        !.level = u.subscriptionLevel]]
                    /\ UNCHANGED last
    /\ UNCHANGED <<env, server, stories, now, users, sessions, oauthAccounts,
                   verifications, issued, registered, fresh>>

\* hasReachedStoryLimit: the count of this month's stories against the limit
\* of the tier read before.
StoryCount(p) ==
    /\ procs[p].pc = "story_count"
    /\ IF StoriesThisMonth(procs[p].userId) >= UserLimit(procs[p].level)
       THEN /\ last' = LimitReached(procs[p].userId)
            /\ procs' = [procs EXCEPT ![p] = Idle]
       ELSE /\ procs' = [procs EXCEPT ![p].pc = "story_insert"]
            /\ UNCHANGED last
    /\ UNCHANGED <<env, server, stories, now, users, sessions, oauthAccounts,
                   verifications, issued, registered, fresh>>

\* createStory: the insert into stories (generation of the content goes on
\* in the background and writes to this row only).
StoryInsert(p) ==
    /\ procs[p].pc = "story_insert"
    /\ stories' = stories \cup
           {[id |-> fresh.stories + 1, userId |-> procs[p].userId]}
    /\ fresh' = [fresh EXCEPT !.stories = @ + 1]
    /\ procs' = [procs EXCEPT ![p].pc = "story_increment"]
    /\ UNCHANGED <<env, server, now, users, sessions, oauthAccounts,
                   verifications, issued, registered, last>>

\* createStory: incrementStoryCount, then 201 with the story.
StoryIncrement(p) ==
    /\ procs[p].pc = "story_increment"
    /\ users' = {IF x.id = procs[p].userId
                 THEN [x EXCEPT !.storiesGenerated = @ + 1]
                 ELSE x : x \in users}
    /\ last' = [NoRequest EXCEPT !.op = "create_story",
                                 !.userId = procs[p].userId,
                                 !.status = 201, !.message = "story"]
    /\ procs' = [procs EXCEPT ![p] = Idle]
    /\ UNCHANGED <<env, server, stories, now, sessions, oauthAccounts,
                   verifications, issued, registered, fresh>>

\* ----------------------------------------------------------- specifications
\* The bearer values a client can present: the tokens handed out, or a forgery.
Presented == issued \cup {ForgedToken}

\* A token anybody can sign who has read the fallback literal.
FallbackForgery == <<"jwt", Uuid(1), Uuid(1), 0, MaxTime + 1, FallbackSecret>>

\* From process start to served requests, under every environment: the
\* modules load, the server comes up or exits, and clients register, log in
\* and present tokens, among them one signed with the fallback literal.
NextBoot ==
    \/ LoadModules
    \/ \E c \in BOOLEAN : StartServer(c)
    \/ Listening /\ \E pw \in Passwords : RegisterStart(1, <<"a">>, pw)
    \/ Listening /\ RegisterInsert(1)
    \/ Listening /\ SendDelete(1, "111111")
    \/ Listening /\ SendInsert(1)
    \/ Listening /\ MailReturn(1, "sent")
    \/ Listening /\ RegisterFinish(1, 0)
    \/ Listening /\ \E pw \in Passwords : Login(<<"a">>, pw, 0)
    \/ Listening /\ \E tok \in Presented \cup {FallbackForgery} :
                        Authenticate(tok)
    \/ Listening /\ \E tok \in Presented \cup {FallbackForgery} :
                        ValidateToken(tok)

SpecBoot == InitBoot /\ [][NextBoot]_vars

\* Registration, password login and OAuth login, two requests at a time.
\* Nothing here reads the clock, which stands still.
NextAuth ==
    \/ \E p \in Procs, e \in Emails, pw \in Passwords : RegisterStart(p, e, pw)
    \/ \E p \in Procs : RegisterInsert(p)
    \/ \E p \in Procs : SendDelete(p, "111111")
    \/ \E p \in Procs : SendInsert(p)
    \/ \E p \in Procs : MailReturn(p, "sent")
    \/ \E p \in Procs : RegisterFinish(p, 0)
    \/ \E e \in Emails, pw \in Passwords : Login(e, pw, 0)
    \/ \E p \in Procs, pr \in Providers, id \in ProviderAccountIds,
          e \in OAuthEmails : OAuthStart(p, pr, id, e)
    \/ \E p \in Procs : OAuthFindByEmail(p)
    \/ \E p \in Procs : OAuthInsertUser(p)
    \/ \E p \in Procs : OAuthLink(p)
    \/ \E p \in Procs : OAuthLinkFails(p)
    \/ \E p \in Procs : OAuthFinish(p, 0)

SpecAuth == Init /\ [][NextAuth]_vars

\* The life of a session: issued at register or login, presented to the gate,
\* to validateToken and to logout while the clock runs.
NextSession ==
    \/ Tick
    \/ \E pw \in Passwords : RegisterStart(1, <<"a">>, pw)
    \/ RegisterInsert(1)
    \/ SendDelete(1, "111111")
    \/ SendInsert(1)
    \/ MailReturn(1, "sent")
    \/ \E d \in 0..MaxDelay : RegisterFinish(1, d)
    \/ \E pw \in Passwords, d \in 0..MaxDelay : Login(<<"a">>, pw, d)
    \/ \E pw \in Passwords, st \in LoginFaultStages :
           LoginStoreFails(<<"a">>, pw, st)
    \/ \E tok \in Presented : Authenticate(tok)
    \/ \E tok \in Presented : Logout(tok)
    \/ \E tok \in Presented : ValidateToken(tok)
    \/ \E p \in Procs : VerifyEmail(p, <<"a">>, "111111")
    \/ \E p \in Procs : VerifyMark(p)
    \/ \E p \in Procs : VerifyFlip(p)

SpecSession == Init /\ [][NextSession]_vars

\* E-mail verification: codes issued by register and resend-verification,
\* two requests at a time, and redeemed by verify-email while the clock runs.
NextVerify ==
    \/ Tick
    \/ \E p \in Procs, e \in VerifyEmails : RegisterStart(p, e, "pw1")
    \/ \E p \in Procs : RegisterInsert(p)
    \/ \E p \in Procs, c \in Codes : SendDelete(p, c)
    \/ \E p \in Procs : SendInsert(p)
    \/ \E p \in Procs : MailReturn(p, "sent")
    \/ \E p \in Procs : RegisterFinish(p, 0)
    \/ \E p \in Procs, e \in VerifyEmails : ResendStart(p, e)
    \/ \E p \in Procs : ResendFinish(p)
    \/ \E p \in Procs, e \in VerifyEmails, c \in Codes : VerifyEmail(p, e, c)
    \/ \E p \in Procs : VerifyMark(p)
    \/ \E p \in Procs : VerifyFlip(p)
    \/ \E p \in Procs : VerifyFlipFails(p)

SpecVerify == Init /\ [][NextVerify]_vars

\* The verification mail and its provider: register and resend-verification
\* dispatch, the provider accepts, refuses, throws or keeps silent, and
\* verify-email redeems the code.  The clock stands still.
NextNotify ==
    \/ \E p \in Procs, e \in VerifyEmails : RegisterStart(p, e, "pw1")
    \/ \E p \in Procs : RegisterInsert(p)
    \/ \E p \in Procs : SendDelete(p, "111111")
    \/ \E p \in Procs : SendInsert(p)
    \/ \E p \in Procs, o \in SinkOutcomes : MailReturn(p, o)
    \/ \E p \in Procs : RegisterFinish(p, 0)
    \/ \E p \in Procs, e \in VerifyEmails : ResendStart(p, e)
    \/ \E p \in Procs : ResendFinish(p)
    \/ \E p \in Procs, e \in VerifyEmails : VerifyEmail(p, e, "111111")
    \/ \E p \in Procs : VerifyMark(p)
    \/ \E p \in Procs : VerifyFlip(p)

SpecNotify == Init /\ [][NextNotify]_vars

\* The same, with the scheduling the program can count on: the event loop
\* runs every continuation whose await has settled, and the store answers.
\* Nothing makes the mail provider answer, and nothing makes clients send
\* requests.
SpecNotifyLive ==
    /\ Init
    /\ [][NextNotify]_vars
    /\ \A p \in Procs : /\ WF_vars(RegisterInsert(p))
                        /\ WF_vars(SendDelete(p, "111111"))
                        /\ WF_vars(SendInsert(p))
                        /\ WF_vars(RegisterFinish(p, 0))
                        /\ WF_vars(ResendFinish(p))
                        /\ WF_vars(VerifyMark(p))
                        /\ WF_vars(VerifyFlip(p))

\* Tokens under the server's key for every pair of a user id and a session
\* id, also the pairs createSessionForUser never signed.
PairedTokens ==
    {<<"jwt", Uuid(u), Uuid(k), 0, MaxTime + 1, SigningSecret>> :
         u \in 1..MaxUsers, k \in 1..MaxSessions}

\* Revocation: two Subjects, two sessions (one each, or both of one), and
\* callers that revoke, log out and resolve tokens in any order.
NextRevoke ==
    \/ \E e \in AccessEmails : RegisterStart(1, e, "pw1")
    \/ RegisterInsert(1)
    \/ SendDelete(1, "111111")
    \/ SendInsert(1)
    \/ MailReturn(1, "sent")
    \/ RegisterFinish(1, 0)
    \/ \E e \in AccessEmails : Login(e, "pw1", 0)
    \/ \E sid \in SessionIds : RevokeSession(sid)
    \/ \E tok \in Presented : Logout(tok)
    \/ \E tok \in Presented \cup PairedTokens : ValidateToken(tok)

SpecRevoke == Init /\ [][NextRevoke]_vars

\* The two gates: tokens issued by register and login are presented, with a
\* forged one, to a protected route and to GET /verify while the clock runs.
NextGate ==
    \/ Tick
    \/ \E pw \in Passwords : RegisterStart(1, <<"a">>, pw)
    \/ RegisterInsert(1)
    \/ SendDelete(1, "111111")
    \/ SendInsert(1)
    \/ MailReturn(1, "sent")
    \/ RegisterFinish(1, 0)
    \/ \E pw \in Passwords : Login(<<"a">>, pw, 0)
    \/ \E tok \in Presented : Authenticate(tok)
    \/ \E tok \in Presented : AuthenticateStoreFails(tok)
    \/ \E tok \in Presented, up \in BOOLEAN : VerifyAuth(tok, up)

SpecGate == Init /\ [][NextGate]_vars

\* Register and its retries: the store may fail when the session is created.
NextRetry ==
    \/ \E p \in Procs, e \in VerifyEmails, pw \in Passwords :
           RegisterStart(p, e, pw)
    \/ \E p \in Procs : RegisterInsert(p)
    \/ \E p \in Procs : SendDelete(p, "111111")
    \/ \E p \in Procs : SendInsert(p)
    \/ \E p \in Procs : MailReturn(p, "sent")
    \/ \E p \in Procs : RegisterFinish(p, 0)
    \/ \E p \in Procs : RegisterSessionFails(p)
    \/ \E e \in VerifyEmails, pw \in Passwords : Login(e, pw, 0)

SpecRetry == Init /\ [][NextRetry]_vars

\* Story creation: one registered user, put on a tier before the first
\* story, sends createStory requests, two at a time.
NextStory ==
    \/ RegisterStart(1, <<"a">>, "pw1")
    \/ RegisterInsert(1)
    \/ SendDelete(1, "111111")
    \/ SendInsert(1)
    \/ MailReturn(1, "sent")
    \/ RegisterFinish(1, 0)
    \/ \E u \in users, l \in Tiers :
           /\ fresh.stories = 0
           /\ \A p \in Procs : Free(p)
           /\ UpdateSubscription(u, l)
    \/ \E p \in Procs, r \in registered : CreateStoryStart(p, r.userId)
    \/ \E p \in Procs : StoryCount(p)
    \/ \E p \in Procs : StoryInsert(p)
    \/ \E p \in Procs : StoryIncrement(p)

SpecStory == Init /\ [][NextStory]_vars

\* Story routes: two registered Subjects ask for stories.
NextAccess ==
    \/ \E e \in AccessEmails : RegisterStart(1, e, "pw1")
    \/ RegisterInsert(1)
    \/ SendDelete(1, "111111")
    \/ SendInsert(1)
    \/ MailReturn(1, "sent")
    \/ RegisterFinish(1, 0)
    \/ \E u \in users, r \in Roles, st \in Stories : GetStory(u, r, st)

SpecAccess == Init /\ [][NextAccess]_vars

\* ------------------------------------------------------------------- claims
\* The request that has just been answered on this step has operation op.
Answered(op) == last' # last /\ last'.op = op

\* C1: after logout(token), called with the bearer token of the
\* Authorization header, the session row bound to the token is gone and
\* validateToken on the same token fails, whatever TTL remains.
C1_LogoutRevokesSession ==
    (last.op = "logout" /\ last.status = 200) =>
        /\ ~ \E s \in sessions : s.id = TokenSessionId(last.token)
        /\ ValidateTokenUser(last.token, now) = {}

\* C2: the gate yields a Subject only if a session row for the token's
\* sessionId exists and is unexpired when the token is presented (expiry
\* taken as validateToken takes it: expiresAt < now).
C2_GateChecksSessionStore ==
    [][(Answered("authenticate") /\ last'.status = 200) =>
          \E s \in sessions : /\ s.id = TokenSessionId(last'.token)
                              /\ ~SessionExpired(s, now)]_vars

\* C3: a register request racing another register for the same email ends
\* 201 or 409, never as another kind of failure, and one Subject holds the
\* email.  (The email is taken in its stored form, so that only the race can
\* decide the outcome, and the Subject holding it was made by register.)
C3_ConcurrentRegisterOutcome ==
    (/\ last.op = "register"
     /\ StoredEmail(last.email) = last.email
     /\ \A u \in GetUserByEmail(last.email) : u.password # NoPassword) =>
        /\ last.status \in {201, 409}
        /\ Cardinality(GetUserByEmail(last.email)) <= 1

\* C4: once register(E) has succeeded, a later register(E') with E' equal to
\* E ignoring letter case is answered 409 and creates no second Subject.
C4_DuplicateRegisterConflict ==
    (last.op = "register" /\ last.dup) =>
        /\ last.status = 409
        /\ Cardinality({u \in users : SameIgnoringCase(u.email, last.email)}) <= 1

\* C5: while its session row is there, a token issued by createSessionForUser
\* resolves to the owning Subject at every time before the row's expiresAt,
\* and fails at every time after it.
C5_TokenResolvesUntilExpiry ==
    [][(Answered("validate") /\ last'.token \in issued) =>
          \A s \in sessions : s.id = TokenSessionId(last'.token) =>
              /\ now < s.expiresAt =>
                     (last'.status = 200 /\ last'.userId = s.userId)
              /\ now > s.expiresAt => last'.status = 401]_vars

\* The rows issued last among those stored for an email.
MostRecentFor(email) ==
    {v \in verifications : v.email = email /\ IssuedLast(v)}

\* C6: verifyEmail(email, code) accepts a code only if it is the code issued
\* last for that email, still unverified and not past its expiry (expiry
\* taken as verifyEmail takes it: a code is still good at the expiry instant
\* itself).
C6_OnlyNewestCodeVerifies ==
    [][\A p \in Procs :
          (Free(p) /\ procs'[p].op = "verify") =>
              \E v \in MostRecentFor(procs'[p].email) :
                  /\ v.code = procs'[p].code
                  /\ ~v.verified
                  /\ ~VerificationExpired(v, now)]_vars

\* C7: at most one unverified verification row exists per Subject, in every
\* state, whatever the interleaving of the requests that issue codes.
C7_OneUnverifiedRowPerSubject ==
    \A u \in users :
        Cardinality({v \in verifications : v.userId = u.id /\ ~v.verified}) <= 1

\* No Subject whose email is this one, ignoring letter case and surrounding
\* blanks, has this password: no such Subject, no password hash, or another.
NoSubjectHasCredentials(email, password) ==
    ~ \E u \in users : /\ NormalizeEmail(u.email) = NormalizeEmail(email)
                       /\ u.password = BcryptHash(password)

\* C8: a login for a nonexistent email, with a wrong password, or for a
\* Subject without a password hash is answered with the one InvalidCredentials
\* value and message, and creates no session.
C8_LoginFailuresUniform ==
    [][(Answered("login")
        /\ NoSubjectHasCredentials(last'.email, last'.password)) =>
          /\ last'.status = 401
          /\ last'.message = "Invalid email or password"
          /\ last'.userId = NoId
          /\ last'.issuedToken = NoToken
          /\ sessions' = sessions
          /\ issued' = issued]_vars

\* C8 witness: a login refused for a Subject that has no password hash.
C8_Witness ==
    /\ last.op = "login"
    /\ last.status = 401
    /\ \E u \in users : /\ u.email = NormalizeEmail(last.email)
                        /\ u.password = NoPassword

\* C9: once register(E, P) has succeeded, login(E, P) succeeds and returns a
\* token and the id of the Subject that register created.
C9_RegisterThenLogin ==
    [][Answered("login") =>
          \A r \in registered :
              (r.email = last'.email /\ r.password = last'.password) =>
                  /\ last'.status = 200
                  /\ last'.userId = r.userId
                  /\ last'.issuedToken \in issued'
                  /\ TokenUserId(last'.issuedToken) = r.userId]_vars

\* C9 witness: a login that succeeded with the credentials of an earlier
\* register, typed with an upper-case letter.
C9_Witness ==
    /\ last.op = "login"
    /\ last.status = 200
    /\ last.email # NormalizeEmail(last.email)
    /\ \E r \in registered : /\ r.email = last.email
                             /\ r.password = last.password
                             /\ r.userId = last.userId

\* C10: every stored email is lowercase-normalized and no two Subjects have
\* emails that are equal ignoring letter case.
C10_EmailsNormalizedAndUnique ==
    /\ \A u \in users : u.email = NormalizeEmail(u.email)
    /\ \A u, v \in users : u # v => ~SameIgnoringCase(u.email, v.email)

\* C11: at most one row of oauth_accounts exists for a pair (provider,
\* external account id), in every state, whatever the interleaving of the
\* provider callbacks.
C11_OneLinkPerExternalIdentity ==
    \A a, b \in oauthAccounts :
        (a.provider = b.provider /\ a.providerAccountId = b.providerAccountId)
            => a = b

\* C12: a provider callback that comes in when its external identity is
\* linked already creates no user and no link on any of its steps, and ends
\* with the user of a link that was there.
C12_OAuthTwiceSameSubject ==
    [][\A p \in Procs :
          (procs[p].op = "oauth" /\ procs[p].dup /\ procs'[p] # procs[p]) =>
              /\ users' = users
              /\ oauthAccounts' = oauthAccounts
              /\ procs'[p].pc = "idle" =>
                     /\ last'.op = "oauth"
                     /\ last'.message = "success=true"
                     /\ \E a \in Linked(procs[p].provider, procs[p].account) :
                            a.userId = last'.userId]_vars

\* C12 witness: a callback for an external identity linked before it came in
\* has ended with a session, the second session of the linked user.
C12_Witness ==
    /\ last.op = "oauth"
    /\ last.dup
    /\ last.message = "success=true"
    /\ \E a \in oauthAccounts : a.userId = last.userId
    /\ Cardinality({s \in sessions : s.userId = last.userId}) = 2

\* C13: every user has a password hash or at least one linked OAuth account,
\* in every state.
C13_SubjectHasCredential ==
    \A u \in users :
        u.password # NoPassword \/ \E a \in oauthAccounts : a.userId = u.id

\* C14: no state holds a verification row marked verified whose user's
\* emailVerified flag is false.
C14_VerifiedRowImpliesVerifiedUser ==
    \A v \in verifications :
        v.verified => \A u \in users : u.id = v.userId => u.emailVerified

LastTokenAccepted ==
    \E u \in JwtStrategyUser(last.issuedToken) : u.id = last.userId

\* C16: the token of a successful register passes the gate at once, and the
\* gate's answer is decided by the token and the existence of its user alone,
\* whatever the user's emailVerified flag.
C16_GateIgnoresEmailVerified ==
    [][/\ (Answered("register") /\ last'.status = 201) =>
              LastTokenAccepted'
       /\ Answered("authenticate") =>
              ((last'.status = 200) <=>
                   /\ VerifyJWT(last'.token, now)
                   /\ GetUserById(TokenUserId(last'.token)) # {})]_vars

\* C16 witness: the gate has let through a user whose register has returned
\* and whose email is unverified.
C16_Witness ==
    /\ last.op = "authenticate"
    /\ last.status = 200
    /\ \E r \in registered : r.userId = last.userId
    /\ \E u \in users : u.id = last.userId /\ ~u.emailVerified

\* C17: a register request that has come in is answered in the end, whatever
\* the mail provider does, and also when it never answers.
C17_RegisterReturnsDespiteSink ==
    \A p \in Procs : (procs[p].op = "register") ~> (procs[p].op # "register")

\* C18: a register whose verification mail the provider refused, or whose
\* dispatch threw, is answered 201 with a token, and the user and the session
\* of the token are stored.
C18_SinkFailureDoesNotFailRegister ==
    [][(Answered("register") /\ last'.sink \in {"refused", "threw"}) =>
          /\ last'.status = 201
          /\ last'.issuedToken \in issued'
          /\ \E u \in users' : u.id = last'.userId
          /\ \E x \in sessions' : /\ x.id = TokenSessionId(last'.issuedToken)
                                  /\ x.userId = last'.userId]_vars

\* C18 witness: a register answered 201 although the dispatch threw.
C18_Witness ==
    /\ last.op = "register"
    /\ last.sink = "threw"
    /\ last.status = 201
    /\ last.issuedToken \in issued

\* C19: a resend-verification request for a user whose emailVerified is true
\* is answered with success in the step it comes in, leaves the verification
\* rows as they are, and never starts a dispatch.
C19_ResendOnVerifiedIsNoOp ==
    [][/\ (/\ Answered("resend")
           /\ procs' = procs
           /\ \E u \in users : /\ u.email = NormalizeEmail(last'.email)
                               /\ u.emailVerified) =>
              /\ last'.status = 200
              /\ verifications' = verifications
              /\ users' = users
       /\ \A p \in Procs :
              (Free(p) /\ procs'[p].op = "resend") =>
                  ~ \E u \in users : /\ u.email = NormalizeEmail(procs'[p].email)
                                     /\ u.emailVerified]_vars

\* C19 witness: a resend-verification for a verified user has been answered
\* with success and without a dispatch.
C19_Witness ==
    /\ last.op = "resend"
    /\ last.status = 200
    /\ last.sink = ""
    /\ \E u \in users : u.id = last.userId /\ u.emailVerified

\* C20: a login under which the store failed is answered as an internal
\* error (500), never with the answer of refused credentials.
C20_StoreFailureIsInternalError ==
    [][(Answered("login") /\ last'.fault) =>
          /\ last'.status = 500
          /\ last'.message # "Invalid email or password"]_vars

\* C21: a process started without JWT_SECRET outside development never
\* serves: it stays loading or has exited, and has handed out no token; and
\* outside development no token signed with the fallback literal is ever
\* handed out or accepted.
C21_NoTokenUnderFallbackKey ==
    /\ (env.JWT_SECRET = "" /\ env.NODE_ENV # "development") =>
           /\ server \in {"loading", "exited"}
           /\ issued = {}
    /\ env.NODE_ENV # "development" =>
           /\ \A tok \in issued : tok[6] # FallbackSecret
           /\ ~ (/\ last.op \in {"authenticate", "validate"}
                 /\ last.status = 200
                 /\ last.token[6] = FallbackSecret)

\* C21 witness: a production process without JWT_SECRET has exited while
\* loading its modules.
C21_Witness ==
    /\ env.JWT_SECRET = ""
    /\ env.NODE_ENV = "production"
    /\ server = "exited"

\* A second revoke of the session revoked last would leave the store as it is.
RevokeAgainChangesNothing == InvalidateSession(last.sessionId) = sessions

\* A second logout with the token of the last logout would leave the store
\* as it is.
LogoutAgainChangesNothing ==
    InvalidateSession(BearerValue(last.token)) = sessions

C23_ExpiryInstantIsExpired ==
    [][(Answered("validate") /\ last'.token \in issued) =>
          \A s \in sessions :
              (s.id = TokenSessionId(last'.token) /\ s.expiresAt <= now) =>
                  last'.status = 401]_vars

C25_TokenResolvesToSessionOwner ==
    [][Answered("validate") =>
          /\ last'.status = 200 =>
                 /\ \E x \in sessions : /\ x.id = TokenSessionId(last'.token)
                                        /\ x.userId = TokenUserId(last'.token)
                                        /\ x.userId = last'.userId
                 /\ \E u \in users : u.id = last'.userId
          /\ (\E x \in sessions : /\ x.id = TokenSessionId(last'.token)
                                  /\ x.userId # TokenUserId(last'.token)) =>
                 last'.status = 401]_vars

\* C25 witness: a token under the server's key that names an existing user
\* and the session of another user has been refused.
C25_Witness ==
    /\ last.op = "validate"
    /\ last.status = 401
    /\ last.token[6] = SigningSecret
    /\ \E u \in users : u.id = TokenUserId(last.token)
    /\ \E x \in sessions : /\ x.id = TokenSessionId(last.token)
                           /\ x.userId # TokenUserId(last.token)

\* A user row holds the email of the last answer, in its stored form.
LastEmailHeld == GetUserByEmail(StoredEmail(last.email)) # {}

\* C26: a register that failed because its session could not be created
\* leaves no user row for its email, and a register is answered 409 only for
\* an email that an earlier register succeeded with or that a register still
\* under way has taken.
C26_RegisterAllOrNothing ==
    [][Answered("register") =>
          /\ last'.fault => ~LastEmailHeld'
          /\ last'.status = 409 =>
                 \/ \E r \in registered :
                        StoredEmail(r.email) = StoredEmail(last'.email)
                 \/ \E p \in Procs :
                        /\ procs[p].op = "register"
                        /\ StoredEmail(procs[p].email) =
                               StoredEmail(last'.email)]_vars

\* C27: a provider callback is linked to a user that already has the link of
\* another external identity only if it asserts an email, the email of that
\* user: identities without an email are never put on one Subject.
C27_NoMergeWithoutEmail ==
    [][\A p \in Procs :
          (procs[p].pc = "oauth_link" /\ procs'[p].pc = "oauth_session") =>
              \A a \in oauthAccounts :
                  (/\ a.userId = procs[p].userId
                   /\ <<a.provider, a.providerAccountId>> #
                          <<procs[p].provider, procs[p].account>>) =>
                      /\ procs[p].email # <<>>
                      /\ \E u \in users : /\ u.id = a.userId
                                          /\ u.email = procs[p].email]_vars

\* C28: verifyEmail(E, c), called with the email E as it was typed at a
\* register that succeeded and with the code c of the newest, unverified and
\* unexpired row of that user, is not refused.
C28_RegisterThenVerify ==
    [][(Answered("verify") /\ last'.status = 400) =>
          ~ \E r \in registered :
              /\ r.email = last'.email
              /\ \E v \in verifications :
                     /\ v.userId = r.userId
                     /\ v.code = last'.code
                     /\ ~v.verified
                     /\ now < v.expiresAt
                     /\ \A w \in verifications :
                            w.userId = v.userId => w.id[2] <= v.id[2]]_vars

\* C29: invalidateSession(s) removes the session row with id s and nothing
\* else: every other session row, every user, every linked account and every
\* verification row stays, and every token bound to another session resolves
\* after the revoke exactly as it did before.
C29_RevokeTouchesOneSession ==
    [][\A sid \in SessionIds :
          RevokeSession(sid) =>
              /\ sessions' \subseteq sessions
              /\ \A x \in sessions : x.id # sid => x \in sessions'
              /\ users' = users
              /\ oauthAccounts' = oauthAccounts
              /\ verifications' = verifications
              /\ \A tok \in issued :
                     TokenSessionId(tok) # sid =>
                         ValidateTokenUser(tok, now)' =
                             ValidateTokenUser(tok, now)]_vars

\* C29 witness: one of two sessions of a Subject has been revoked, and the
\* token of the other one still resolves.
C29_Witness ==
    /\ last.op = "revoke"
    /\ ~last.dup
    /\ \E t1, t2 \in issued :
           /\ TokenSessionId(t1) = last.sessionId
           /\ TokenSessionId(t2) # last.sessionId
           /\ TokenUserId(t1) = TokenUserId(t2)
           /\ ValidateTokenUser(t1, now) = {}
           /\ ValidateTokenUser(t2, now) # {}

\* C30: in every state, the stories a user has created this month are no
\* more than the limit of the user's tier, whatever the interleaving of the
\* user's createStory requests.
C30_StoriesWithinLimit ==
    \A u \in users :
        StoriesThisMonth(u.id) <= UserLimit(u.subscriptionLevel)

====
